---------------------------- MODULE Spec2Model ----------------------------
(***************************************************************************)
(* A model of the Notion MCP server: the entry point (index.ts), the       *)
(* Notion API client (src/notion/client.ts) and the tool registry          *)
(* (registerNotionTools).                                                  *)
(*                                                                         *)
(* Strings are sequences of one-character strings wherever the code works  *)
(* on their characters (identifiers); a literal piece of a template string *)
(* that no code inspects is kept as one element.                           *)
(***************************************************************************)
EXTENDS Integers, Sequences, FiniteSets, TLC

VARIABLES
  apiKeyEnv,     \* process.env.NOTION_API_KEY after dotenv.config()
  pc,            \* position of the entry point's top-level code
  exitCode,      \* the process's exit code, NoExit while it runs
  notionClient,  \* the NotionClient instance, NoClient before construction
  toolConfig,    \* the enablement map handed to registerNotionTools
  tools,         \* the server.tool(...) registrations, in order
  connected,     \* whether server.connect(transport) has resolved
  calls,         \* the invocations in flight, by call slot
  uuidIn,        \* the argument of a direct validateUUID application
  uuidOut        \* its outcome

vars == << apiKeyEnv, pc, exitCode, notionClient, toolConfig, tools,
           connected, calls, uuidIn, uuidOut >>

----------------------------------------------------------------------------
(* Characters and string helpers                                           *)

Digits == { "0", "1", "2", "3", "4", "5", "6", "7", "8", "9" }
LowerHex == { "a", "b", "c", "d", "e", "f" }
UpperHex == { "A", "B", "C", "D", "E", "F" }

\* /[0-9a-f]/i
IsHexChar(c) == c \in Digits \cup LowerHex \cup UpperHex

\* /['"]/
Quotes == { "'", "\"" }

\* /\s/
Whitespace == { " ", "\t", "\n" }

\* /-/
Dashes == { "-" }

IsWhitespace(c) == c \in Whitespace

\* String.prototype.slice(from, to) with 0-based from, exclusive to.
Slice(s, from, to) == SubSeq(s, from + 1, to)

\* s.replace(/[<class>]/g, ''): every character of the class removed.
RECURSIVE RemoveAll(_, _)
RemoveAll(s, class) ==
  IF s = << >> THEN << >>
  ELSE IF Head(s) \in class THEN RemoveAll(Tail(s), class)
       ELSE << Head(s) >> \o RemoveAll(Tail(s), class)

RECURSIVE TrimStart(_)
TrimStart(s) ==
  IF s # << >> /\ IsWhitespace(Head(s)) THEN TrimStart(Tail(s)) ELSE s

RECURSIVE TrimEnd(_)
TrimEnd(s) ==
  IF s # << >> /\ IsWhitespace(s[Len(s)])
  THEN TrimEnd(SubSeq(s, 1, Len(s) - 1)) ELSE s

\* String.prototype.trim()
Trim(s) == TrimEnd(TrimStart(s))

\* String.prototype.includes
Includes(s, part) ==
  \E i \in 0..(Len(s) - Len(part)) : SubSeq(s, i + 1, i + Len(part)) = part

----------------------------------------------------------------------------
(* NotionClient.validateUUID                                               *)

UuidLen == 32

EmptyIdMessage ==
  << "N", "o", "t", "i", "o", "n", " ", "I", "D", " ", "c", "a", "n", "n",
     "o", "t", " ", "b", "e", " ", "e", "m", "p", "t", "y" >>
InvalidIdPrefix ==
  << "I", "n", "v", "a", "l", "i", "d", " ", "N", "o", "t", "i", "o", "n",
     " ", "I", "D", " ", "f", "o", "r", "m", "a", "t", ":", " " >>
InvalidIdSuffix ==
  << ".", " ", "E", "x", "p", "e", "c", "t", "e", "d", " ", "a", " ", "3",
     "2", "-", "c", "h", "a", "r", "a", "c", "t", "e", "r", " ", "h", "e",
     "x", "a", "d", "e", "c", "i", "m", "a", "l", " ", "s", "t", "r", "i",
     "n", "g", "." >>

\* The outcome of a call: a returned value or a thrown Error with a message.
Return(v) == [ threw |-> FALSE, value |-> v, message |-> << >> ]
Throw(msg) == [ threw |-> TRUE, value |-> << >>, message |-> msg ]

\* uuid.trim().replace(/['"]/g, '').replace(/\s/g, '')
StripUuid(uuid) == RemoveAll(RemoveAll(Trim(uuid), Quotes), Whitespace)

\* CleanUuid leaving the dashes in.
CleanUuidKeepDashes(uuid) == uuid

\* uuid.replace(/-/g, '')
CleanUuid(uuid) == RemoveAll(uuid, Dashes)

\* /^[0-9a-f]{32}$/i.test(cleanUuid)
IsUuidHex(cleanUuid) ==
  /\ Len(cleanUuid) = UuidLen
  /\ \A i \in 1..Len(cleanUuid) : IsHexChar(cleanUuid[i])

\* FormatUuid with the last group taken one character late.
FormatUuidShifted(c) ==
  Slice(c, 0, 8) \o << "-" >> \o Slice(c, 8, 12) \o << "-" >>
    \o Slice(c, 12, 16) \o << "-" >> \o Slice(c, 16, 20) \o << "-" >>
    \o Slice(c, 21, Len(c))

\* `${c.slice(0,8)}-${c.slice(8,12)}-${c.slice(12,16)}-${c.slice(16,20)}-${c.slice(20)}`
FormatUuid(c) ==
  Slice(c, 0, 8) \o << "-" >> \o Slice(c, 8, 12) \o << "-" >>
    \o Slice(c, 12, 16) \o << "-" >> \o Slice(c, 16, 20) \o << "-" >>
    \o Slice(c, 20, Len(c))

validateUUID(uuid) ==
  IF uuid = << >> THEN Throw(EmptyIdMessage)
  ELSE LET stripped == StripUuid(uuid)
           cleanUuid == CleanUuid(stripped)
       IN  IF ~IsUuidHex(cleanUuid)
           THEN Throw(InvalidIdPrefix \o stripped \o InvalidIdSuffix)
           ELSE Return(FormatUuid(cleanUuid))

----------------------------------------------------------------------------
(* JavaScript values                                                       *)

\* An optional argument or field: undefined, or a value.
Undefined == [ defined |-> FALSE ]
Some(v) == [ defined |-> TRUE, v |-> v ]

\* if (x) for an optional string: undefined and '' are falsy.
TruthyStr(x) == x.defined /\ x.v # << >>

\* if (x) for an optional number: undefined and 0 are falsy.
TruthyNum(x) == x.defined /\ x.v # 0

\* An Error instance: error.message, and String(error).
Err(name, message) ==
  [ isError |-> TRUE, name |-> name, message |-> message,
    str |-> << name, ": " >> \o message ]

\* A thrown value that is no Error instance (a string): String(v) is v.
NonError(v) ==
  [ isError |-> FALSE, name |-> "string", message |-> << >>, str |-> v ]

NoError == [ isError |-> FALSE, name |-> "none", message |-> << >>, str |-> << >> ]

----------------------------------------------------------------------------
(* NotionClient: constructor and request                                   *)

DefaultBaseUrl == << "https://api.notion.com" >>
DefaultApiVersion == << "2022-06-28" >>

NewNotionClient(apiKey) ==
  [ constructed |-> TRUE, apiKey |-> apiKey, baseUrl |-> DefaultBaseUrl,
    apiVersion |-> DefaultApiVersion ]

\* Request bodies: undefined, an object (each field optional), or a string.
NoBody == [ kind |-> "undefined" ]
ObjectBody(fields) == [ kind |-> "object", fields |-> fields ]
StringBody(str) == [ kind |-> "string", str |-> str ]

\* body ? ... : ...   (an object is truthy, '' is not)
TruthyBody(body) ==
  CASE body.kind = "undefined" -> FALSE
    [] body.kind = "object" -> TRUE
    [] body.kind = "string" -> body.str # << >>

\* JSON.stringify(body): undefined-valued fields of an object are left out,
\* a string is quoted.
Stringify(body) ==
  CASE body.kind = "object" ->
         [ kind |-> "json-object",
           fields |-> [ f \in { g \in DOMAIN body.fields : body.fields[g].defined }
                          |-> body.fields[f].v ] ]
    [] body.kind = "string" ->
         [ kind |-> "json-string", text |-> << "\"" >> \o body.str \o << "\"" >> ]

\* FetchCall naming a content type only when it sends a body.
FetchCallBareGet(this, endpoint, method, body) ==
  [ url |-> this.baseUrl \o endpoint,
    endpoint |-> endpoint,
    method |-> method,
    headers |-> [ Authorization |-> << "Bearer " >> \o this.apiKey,
                  ContentType |-> IF TruthyBody(body)
                                  THEN << "application/json" >> ELSE << >>,
                  NotionVersion |-> this.apiVersion ],
    body |-> IF TruthyBody(body) THEN Stringify(body) ELSE NoBody ]

\* The call fetch(url, options) that request makes (client.ts 31-45).
FetchCall(this, endpoint, method, body) ==
  [ url |-> this.baseUrl \o endpoint,
    endpoint |-> endpoint,
    method |-> method,
    headers |-> [ Authorization |-> << "Bearer " >> \o this.apiKey,
                  ContentType |-> << "application/json" >>,
                  NotionVersion |-> this.apiVersion ],
    body |-> IF TruthyBody(body) THEN Stringify(body) ELSE NoBody ]

NoFetch == [ kind |-> "no fetch" ]

\* How far a Client operation gets before it suspends: it throws, or it has
\* called fetch.
OpThrows(error) == [ threw |-> TRUE, error |-> error, fetch |-> NoFetch ]
OpFetches(call) == [ threw |-> FALSE, error |-> NoError, fetch |-> call ]

\* request(endpoint, method = 'GET', body) up to its first await.
request(this, endpoint, method, body) ==
  OpFetches(FetchCall(this, endpoint, method, body))

\* Parsed response bodies. A body names its own serialisations.
NoData == [ kind |-> "none" ]
Pretty(data) ==
  IF data.kind = "null" THEN << "null" >>
  ELSE << "JSON.stringify(", data.id, ", null, 2)" >>
Compact(data) ==
  IF data.kind = "null" THEN << "null" >>
  ELSE << "JSON.stringify(", data.id, ")" >>

\* How a settled call ends: a thrown error or returned data.
Threw(error) == [ threw |-> TRUE, error |-> error, data |-> NoData ]
Returned(data) == [ threw |-> FALSE, error |-> NoError, data |-> data ]
NoOutcome == [ threw |-> FALSE, error |-> NoError, data |-> [ kind |-> "pending" ] ]

\* response.ok
ResponseOk(status) == status \in 200..299

\* requestCatch wrapping whatever it caught.
requestCatchWrapAll(error) ==
  Threw(Err("Error",
            << "Unexpected error in Notion API request: " >> \o error.str))

\* The catch block of request (client.ts 65-70).
requestCatch(error) ==
  IF error.isError THEN Threw(error)
  ELSE Threw(Err("Error",
                 << "Unexpected error in Notion API request: " >> \o error.str))

\* data.message || JSON.stringify(data)
MessageOrBody(data) ==
  IF TruthyStr(data.message) THEN data.message.v ELSE Compact(data)

\* data.request_id || 'unknown'
RequestIdOrUnknown(data) ==
  IF TruthyStr(data.request_id) THEN data.request_id.v ELSE << "unknown" >>

\* The Error built for a non-success status (client.ts 50-54).
ApiError(status, endpoint, data) ==
  Err("Error",
      << "Notion API error: ", ToString(status), " - " >> \o MessageOrBody(data)
        \o << "\nEndpoint: " >> \o endpoint
        \o << "\nRequest ID: " >> \o RequestIdOrUnknown(data))

NullPropertyError ==
  Err("TypeError", << "Cannot read properties of null" >>)
UndefinedPropertyError ==
  Err("TypeError", << "Cannot read properties of undefined" >>)
JsonSyntaxError ==
  Err("SyntaxError", << "Unexpected token in JSON" >>)
GetWithBodyError ==
  Err("TypeError", << "Request with GET/HEAD method cannot have body." >>)

\* requestOnJson without the response.ok test.
requestOnJsonUnchecked(endpoint, status, data) == Returned(data)

\* request after response.json() has resolved with data (client.ts 48-64).
requestOnJson(endpoint, status, data) ==
  IF ~ResponseOk(status)
  THEN IF data.kind = "null" THEN requestCatch(NullPropertyError)
       ELSE requestCatch(ApiError(status, endpoint, data))
  ELSE Returned(data)

\* request after response.json() has rejected: the body is no JSON.
requestOnJsonRejected == requestCatch(JsonSyntaxError)

\* request after fetch has rejected with cause.
requestOnFetchRejected(cause) == requestCatch(cause)

----------------------------------------------------------------------------
(* NotionClient: the operations                                            *)

DefaultPageSize == 100

\* URLSearchParams encoding of one character.
UrlEncodeChar(c) ==
  CASE c = " " -> "+"
    [] c = "&" -> "%26"
    [] c = "=" -> "%3D"
    [] OTHER -> c

UrlEncode(str) == [ i \in 1..Len(str) |-> UrlEncodeChar(str[i]) ]

\* URLSearchParams.toString() of the pairs set so far.
RECURSIVE QueryToString(_)
QueryToString(query) ==
  IF query = << >> THEN << >>
  ELSE << query[1][1], "=" >> \o UrlEncode(query[1][2])
         \o (IF Len(query) > 1 THEN << "&" >> ELSE << >>)
         \o QueryToString(Tail(query))

\* query.toString() ? `?${query}` : ''
QueryString(query) ==
  IF QueryToString(query) # << >> THEN << "?" >> \o QueryToString(query)
  ELSE << >>

\* The pagination pairs of listUsers and getComments; pageSize = 100 when
\* the argument is undefined.
PagingQuery(startCursor, pageSize) ==
  LET size == IF pageSize.defined THEN pageSize ELSE Some(DefaultPageSize)
  IN  (IF TruthyStr(startCursor)
       THEN << << "start_cursor", startCursor.v >> >> ELSE << >>)
        \o (IF TruthyNum(size)
            THEN << << "page_size", << ToString(size.v) >> >> >> ELSE << >>)

getMe(this) == request(this, << "/v1/users/me" >>, "GET", NoBody)

listUsers(this, startCursor, pageSize) ==
  request(this,
          << "/v1/users" >> \o QueryString(PagingQuery(startCursor, pageSize)),
          "GET", NoBody)

getUser(this, userId) ==
  request(this, << "/v1/users/" >> \o userId, "GET", NoBody)

search(this, params) == request(this, << "/v1/search" >>, "POST", params)

\* The Error validateUUID threw, as it leaves the operation that called it.
ValidationError(checked) == Err("Error", checked.message)

getPage(this, pageId) ==
  LET checked == validateUUID(pageId)
  IN  IF checked.threw THEN OpThrows(ValidationError(checked))
      ELSE request(this, << "/v1/pages/" >> \o checked.value, "GET", NoBody)

\* The parent of createPage: { type: parentType, [parentType]: parentId }.
Parent(parentType, parentId) ==
  IF parentType = "page_id"
  THEN [ type |-> parentType, page_id |-> parentId ]
  ELSE [ type |-> parentType, database_id |-> parentId ]

ParentId(parent) ==
  IF parent.type = "page_id" THEN parent.page_id ELSE parent.database_id

\* params is the fields of the body: parent, properties, children.
createPage(this, params) ==
  LET checked == validateUUID(ParentId(params.parent.v))
  IN  IF checked.threw THEN OpThrows(ValidationError(checked))
      ELSE request(this, << "/v1/pages" >>, "POST",
                   ObjectBody([ params EXCEPT
                     !.parent = Some(Parent(params.parent.v.type,
                                            checked.value)) ]))

updatePage(this, pageId, params) ==
  LET checked == validateUUID(pageId)
  IN  IF checked.threw THEN OpThrows(ValidationError(checked))
      ELSE request(this, << "/v1/pages/" >> \o checked.value, "PATCH", params)

getDatabase(this, databaseId) ==
  request(this, << "/v1/databases/" >> \o databaseId, "GET", NoBody)

createDatabase(this, params) ==
  request(this, << "/v1/databases" >>, "POST", params)

queryDatabase(this, databaseId, params) ==
  request(this, << "/v1/databases/" >> \o databaseId \o << "/query" >>,
          "POST", params)

getBlock(this, blockId) ==
  request(this, << "/v1/blocks/" >> \o blockId, "GET", NoBody)

getBlockChildren(this, blockId, params) ==
  LET checked == validateUUID(blockId)
  IN  IF checked.threw THEN OpThrows(ValidationError(checked))
      ELSE request(this,
                   << "/v1/blocks/" >> \o checked.value \o << "/children" >>,
                   "GET", params)

\* appendBlockChildren sending POST.
appendBlockChildrenPost(this, blockId, children) ==
  request(this, << "/v1/blocks/" >> \o blockId \o << "/children" >>, "POST",
          ObjectBody([ children |-> Some(children) ]))

appendBlockChildren(this, blockId, children) ==
  request(this, << "/v1/blocks/" >> \o blockId \o << "/children" >>, "PATCH",
          ObjectBody([ children |-> Some(children) ]))

getComments(this, blockId, startCursor, pageSize) ==
  request(this,
          << "/v1/comments" >>
            \o QueryString(<< << "block_id", blockId >> >>
                             \o PagingQuery(startCursor, pageSize)),
          "GET", NoBody)

createComment(this, params) ==
  request(this, << "/v1/comments" >>, "POST", params)

----------------------------------------------------------------------------
(* registerNotionTools: the registry                                       *)

\* The tools in the order registerNotionTools declares them.
ToolOrder ==
  << "get-current-user", "list-users", "search", "get-page", "create-page",
     "get-database", "create-database", "query-database",
     "get-block-children", "append-block-children", "get-comments",
     "create-comment", "get-all-pages" >>

ToolNames == { ToolOrder[i] : i \in 1..Len(ToolOrder) }

\* IsToolEnabled as if (toolConfig[name]): an absent name is disabled.
IsToolEnabledTruthy(config, name) ==
  name \in DOMAIN config /\ config[name] = TRUE

\* toolConfig[name] !== false: a name absent from the map reads undefined.
IsToolEnabled(config, name) ==
  ~(name \in DOMAIN config /\ config[name] = FALSE)

\* The server.tool(name, ...) calls registerNotionTools makes, in order.
registerNotionTools(config) ==
  SelectSeq(ToolOrder, LAMBDA name : IsToolEnabled(config, name))

\* The toolConfig literal of the entry point.
IndexToolConfig ==
  [ name \in ToolNames |->
      name \notin { "get-database", "create-database", "query-database",
                    "get-comments", "create-comment" } ]

\* The <action> of each handler's `Error <action>: ...`.
ErrorAction(tool) ==
  CASE tool = "get-current-user" -> "fetching current user"
    [] tool = "list-users" -> "listing users"
    [] tool = "search" -> "searching Notion"
    [] tool = "get-page" -> "retrieving page"
    [] tool = "create-page" -> "creating page"
    [] tool = "get-database" -> "retrieving database"
    [] tool = "create-database" -> "creating database"
    [] tool = "query-database" -> "querying database"
    [] tool = "get-block-children" -> "retrieving block children"
    [] tool = "append-block-children" -> "appending blocks"
    [] tool = "get-comments" -> "retrieving comments"
    [] tool = "create-comment" -> "creating comment"
    [] tool = "get-all-pages" -> "retrieving pages"

\* The Client operation each handler awaits.
ToolOperation(tool) ==
  CASE tool = "get-current-user" -> "getMe"
    [] tool = "list-users" -> "listUsers"
    [] tool = "search" -> "search"
    [] tool = "get-page" -> "getPage"
    [] tool = "create-page" -> "createPage"
    [] tool = "get-database" -> "getDatabase"
    [] tool = "create-database" -> "createDatabase"
    [] tool = "query-database" -> "queryDatabase"
    [] tool = "get-block-children" -> "getBlockChildren"
    [] tool = "append-block-children" -> "appendBlockChildren"
    [] tool = "get-comments" -> "getComments"
    [] tool = "create-comment" -> "createComment"
    [] tool = "get-all-pages" -> "search"

\* The public operations of NotionClient.
ClientOperations ==
  { "getMe", "listUsers", "getUser", "search", "getPage", "createPage",
    "updatePage", "getDatabase", "createDatabase", "queryDatabase", "getBlock",
    "getBlockChildren", "appendBlockChildren", "getComments", "createComment" }

\* The tools the README lists under Available Tools.
ReadmeTools ==
  { "get-current-user", "list-users", "search", "get-page", "create-page",
    "get-database", "create-database", "query-database", "get-block-children",
    "append-block-children", "get-comments", "create-comment" }

TextResult(text) == [ content |-> << [ type |-> "text", text |-> text ] >> ]
NoResult == [ content |-> << >> ]

\* error instanceof Error ? error.message : String(error)
ErrorText(error) == IF error.isError THEN error.message ELSE error.str

\* ErrorResult returning the bare message.
ErrorResultBare(tool, error) == TextResult(ErrorText(error))

\* The catch block of every handler.
ErrorResult(tool, error) ==
  TextResult(<< "Error ", ErrorAction(tool), ": " >> \o ErrorText(error))

\* [{ type: 'text', text: { content } }]
RichText(content) == << [ type |-> "text", text |-> [ content |-> content ] ] >>

\* The paragraph block create-page and append-block-children build.
Paragraph(content) ==
  [ object |-> "block", type |-> "paragraph",
    paragraph |-> [ rich_text |-> RichText(content) ] ]

\* !pageProperties[key]: the key is absent or its value is falsy.
PropertyFalsy(properties, key) ==
  \/ key \notin DOMAIN properties
  \/ ("truthy" \in DOMAIN properties[key] /\ ~properties[key].truthy)

NoProperties == [ key \in {} |-> [ truthy |-> FALSE ] ]

\* PageProperties setting Name from the title over any caller's Name.
PagePropertiesTitleWins(parentType, title, properties) ==
  IF parentType = "database_id"
  THEN LET given == IF properties.defined THEN properties.v ELSE NoProperties
       IN  [ key \in DOMAIN given \cup { "Name" } |->
               IF key = "Name" THEN [ title |-> RichText(title) ]
               ELSE given[key] ]
  ELSE [ title |-> RichText(title) ]

\* PageProperties keeping the caller's properties under a page parent.
PagePropertiesMerged(parentType, title, properties) ==
  LET given == IF properties.defined THEN properties.v ELSE NoProperties
  IN  IF parentType = "database_id"
      THEN IF title # << >> /\ PropertyFalsy(given, "Name")
           THEN [ key \in DOMAIN given \cup { "Name" } |->
                    IF key = "Name" THEN [ title |-> RichText(title) ]
                    ELSE given[key] ]
           ELSE given
      ELSE [ key \in DOMAIN given \cup { "title" } |->
               IF key = "title" THEN RichText(title) ELSE given[key] ]

\* pageProperties of the create-page handler (tools 145-170).
PageProperties(parentType, title, properties) ==
  IF parentType = "database_id"
  THEN LET given == IF properties.defined THEN properties.v ELSE NoProperties
       IN  IF title # << >> /\ PropertyFalsy(given, "Name")
           THEN [ key \in DOMAIN given \cup { "Name" } |->
                    IF key = "Name" THEN [ title |-> RichText(title) ]
                    ELSE given[key] ]
           ELSE given
  ELSE [ title |-> RichText(title) ]

\* PageChildren wrapping every content given, the empty string too.
PageChildrenWhenGiven(content) ==
  IF content.defined THEN Some(<< Paragraph(content.v) >>) ELSE Undefined

\* children of the create-page handler (tools 173-186):
\* content ? [paragraph] : undefined
PageChildren(content) ==
  IF TruthyStr(content) THEN Some(<< Paragraph(content.v) >>) ELSE Undefined

\* SearchParams with ascending as the direction when none is given.
SearchParamsAscending(args) ==
  [ query |-> IF TruthyStr(args.query) THEN args.query ELSE Undefined,
    start_cursor |->
      IF TruthyStr(args.startCursor) THEN args.startCursor ELSE Undefined,
    page_size |-> IF TruthyNum(args.pageSize) THEN args.pageSize ELSE Undefined,
    filter |->
      IF args.filter.defined
      THEN Some([ property |-> "object", value |-> args.filter.v ])
      ELSE Undefined,
    sort |->
      IF args.sort.defined
      THEN Some([ timestamp |-> args.sort.v,
                  direction |-> IF args.sortDirection.defined
                                THEN args.sortDirection.v ELSE "ascending" ])
      ELSE Undefined ]

\* searchParams of the search handler (tools 73-91).
SearchParams(args) ==
  [ query |-> IF TruthyStr(args.query) THEN args.query ELSE Undefined,
    start_cursor |->
      IF TruthyStr(args.startCursor) THEN args.startCursor ELSE Undefined,
    page_size |-> IF TruthyNum(args.pageSize) THEN args.pageSize ELSE Undefined,
    filter |->
      IF args.filter.defined
      THEN Some([ property |-> "object", value |-> args.filter.v ])
      ELSE Undefined,
    sort |->
      IF args.sort.defined
      THEN Some([ timestamp |-> args.sort.v,
                  direction |-> IF args.sortDirection.defined
                                THEN args.sortDirection.v ELSE "descending" ])
      ELSE Undefined ]

\* queryParams of the query-database handler (tools 292-297).
QueryParams(args) ==
  [ filter |-> args.filter,
    sorts |-> args.sorts,
    start_cursor |->
      IF TruthyStr(args.startCursor) THEN args.startCursor ELSE Undefined,
    page_size |-> IF TruthyNum(args.pageSize) THEN args.pageSize ELSE Undefined ]

\* The second argument get-block-children hands to getBlockChildren is its
\* startCursor, which the Client takes for params and request for the body.
CursorAsParams(startCursor) ==
  IF startCursor.defined THEN StringBody(startCursor.v) ELSE NoBody

\* AllPagesParams without the default page size.
AllPagesParamsNoDefault(args) ==
  [ filter |-> Some([ value |-> "page", property |-> "object" ]),
    page_size |-> args.pageSize,
    start_cursor |-> args.startCursor ]

\* The search parameters of the get-all-pages handler (tools 447-456);
\* pageSize = 100 when the argument is undefined.
AllPagesParams(args) ==
  [ filter |-> Some([ value |-> "page", property |-> "object" ]),
    page_size |-> IF args.pageSize.defined THEN args.pageSize
                  ELSE Some(DefaultPageSize),
    start_cursor |-> args.startCursor ]

\* Each handler from its call to the point where the Client suspends or throws.
HandlerStart(tool, this, args) ==
  CASE tool = "get-current-user" -> getMe(this)
    [] tool = "list-users" -> listUsers(this, args.startCursor, args.pageSize)
    [] tool = "search" -> search(this, ObjectBody(SearchParams(args)))
    [] tool = "get-page" -> getPage(this, args.pageId)
    [] tool = "create-page" ->
         createPage(this,
           [ parent |-> Some(Parent(args.parentType, args.parentId)),
             properties |->
               Some(PageProperties(args.parentType, args.title, args.properties)),
             children |-> PageChildren(args.content) ])
    [] tool = "get-database" -> getDatabase(this, args.databaseId)
    [] tool = "create-database" ->
         createDatabase(this,
           ObjectBody(
             [ parent |-> Some([ type |-> "page_id", page_id |-> args.parentId ]),
               title |-> Some(RichText(args.title)),
               properties |->
                 IF args.properties.defined THEN args.properties
                 ELSE Some([ Name |-> [ title |-> << >> ] ]) ]))
    [] tool = "query-database" ->
         queryDatabase(this, args.databaseId, ObjectBody(QueryParams(args)))
    [] tool = "get-block-children" ->
         getBlockChildren(this, args.blockId, CursorAsParams(args.startCursor))
    [] tool = "append-block-children" ->
         appendBlockChildren(this, args.blockId, << Paragraph(args.content) >>)
    [] tool = "get-comments" ->
         getComments(this, args.blockId, args.startCursor, args.pageSize)
    [] tool = "create-comment" ->
         createComment(this,
           ObjectBody([ parent |-> Some([ page_id |-> args.pageId ]),
                        rich_text |-> Some(RichText(args.text)) ]))
    [] tool = "get-all-pages" ->
         search(this, ObjectBody(AllPagesParams(args)))

\* The text get-all-pages returns for results (tools 459-466).
AllPagesText(data) ==
  << "Found ", ToString(data.results.v), " pages. ",
     IF data.has_more.defined /\ data.has_more.v
     THEN "More pages available." ELSE "No more pages available.",
     "\n\n" >> \o Pretty(data)

\* HandlerSettle returning the compact serialisation of the response.
HandlerSettleCompact(tool, outcome) ==
  IF outcome.threw THEN ErrorResult(tool, outcome.error)
  ELSE TextResult(Compact(outcome.data))

\* Each handler from the point where the Client call settles to its return.
HandlerSettle(tool, outcome) ==
  IF outcome.threw THEN ErrorResult(tool, outcome.error)
  ELSE IF tool = "get-all-pages"
       THEN IF outcome.data.kind = "null"
            THEN ErrorResult(tool, NullPropertyError)
            ELSE IF ~outcome.data.results.defined
                 THEN ErrorResult(tool, UndefinedPropertyError)
                 ELSE TextResult(AllPagesText(outcome.data))
       ELSE TextResult(Pretty(outcome.data))

----------------------------------------------------------------------------
(* Identifier arguments the checks draw from                               *)

\* The most dashes placed freely in an identifier argument.
MaxDashes == 2

LowerPattern == << "0", "1", "2", "3", "4", "5", "6", "7", "8", "9",
                   "a", "b", "c", "d", "e", "f" >>
MixedPattern == << "A", "b", "C", "9", "F", "0", "e", "D", "7" >>
UpperPattern == << "F", "E", "D", "C", "B", "A" >>

\* n characters, cycling through a pattern.
Cycle(pat, n) == [ i \in 1..n |-> pat[((i - 1) % Len(pat)) + 1] ]

\* s with the character at position p replaced by c.
Replace(s, p, c) == [ i \in 1..Len(s) |-> IF i = p THEN c ELSE s[i] ]

IdCores ==
  { Cycle(LowerPattern, n) : n \in { 0, UuidLen - 1, UuidLen, UuidLen + 1 } }
  \cup { Cycle(MixedPattern, UuidLen), Cycle(UpperPattern, UuidLen) }
  \cup { Replace(Cycle(LowerPattern, UuidLen), p, "g") : p \in { 1, 17, UuidLen } }

\* s with a dash inserted after each of its first i characters, i in at.
RECURSIVE InsertDashes(_, _, _)
InsertDashes(s, at, i) ==
  (IF i \in at THEN << "-" >> ELSE << >>)
    \o (IF i >= Len(s) THEN << >>
        ELSE << s[i + 1] >> \o InsertDashes(s, at, i + 1))

CanonicalDashes == { 8, 12, 16, 20 }

\* The sets of at most k positions among 0..n.
RECURSIVE AtMost(_, _)
AtMost(k, n) ==
  IF k = 0 THEN { {} }
  ELSE AtMost(k - 1, n)
         \cup { at \cup { i } : at \in AtMost(k - 1, n), i \in 0..n }

DashPlacements == AtMost(MaxDashes, UuidLen + 1) \cup { CanonicalDashes }

Decorations == { "none", "spaces", "double-quotes", "single-quotes",
                 "inner-space", "quoted-spaces" }

Decorate(s, d) ==
  CASE d = "none" -> s
    [] d = "spaces" -> << " " >> \o s \o << " ", "\t" >>
    [] d = "double-quotes" -> << "\"" >> \o s \o << "\"" >>
    [] d = "single-quotes" -> << "'" >> \o s \o << "'" >>
    [] d = "inner-space" ->
         SubSeq(s, 1, Len(s) \div 2) \o << " " >>
           \o SubSeq(s, (Len(s) \div 2) + 1, Len(s))
    [] d = "quoted-spaces" -> << "'", " " >> \o s \o << " ", "'" >>

\* Every dash placement on every core, and every decoration of the cores
\* that carry no dash, one dash or the canonical dashes.
UuidInputs ==
  { InsertDashes(core, at, 0) : core \in IdCores, at \in DashPlacements }
    \cup { Decorate(InsertDashes(core, at, 0), d) :
              core \in IdCores,
              at \in AtMost(1, UuidLen + 1) \cup { CanonicalDashes },
              d \in Decorations }

----------------------------------------------------------------------------
(* Arguments and remote behaviour the checks draw from                     *)

CanonicalId == InsertDashes(Cycle(LowerPattern, UuidLen), CanonicalDashes, 0)
UpperId == Cycle(UpperPattern, UuidLen)
QuotedId == Decorate(CanonicalId, "quoted-spaces")
ShortId == Cycle(LowerPattern, UuidLen - 1)
PaddedBadId == Decorate(<< "z", "z" >>, "spaces")
QuotedBadId == Decorate(<< "a", "b", "c" >>, "double-quotes")
BlankId == << " " >>
EmptyId == << >>

ArgIds ==
  { CanonicalId, UpperId, QuotedId, ShortId, PaddedBadId, QuotedBadId,
    BlankId, EmptyId }

Cursors == { Undefined, Some(<< >>), Some(<< "c", "u", "r", "=", "1" >>) }
PageSizes == { Undefined, Some(25) }
Texts == { << >>, << "F", "o", "o" >> }
OptionalTexts == { Undefined } \cup { Some(t) : t \in Texts }

CallerValue == [ truthy |-> TRUE, custom |-> "caller" ]
NullValue == [ truthy |-> FALSE, custom |-> "null" ]
CallerProperties ==
  { Undefined, Some(NoProperties), Some([ Name |-> CallerValue ]),
    Some([ Status |-> CallerValue ]), Some([ Name |-> NullValue ]) }

ArgsOf(tool) ==
  CASE tool = "get-current-user" -> { [ none |-> TRUE ] }
    [] tool \in { "list-users", "get-all-pages" } ->
         [ startCursor : Cursors, pageSize : PageSizes ]
    [] tool = "search" ->
         [ query : OptionalTexts,
           filter : { Undefined, Some("page"), Some("database") },
           sort : { Undefined, Some("last_edited_time") },
           sortDirection : { Undefined, Some("ascending"), Some("descending") },
           pageSize : PageSizes,
           startCursor : Cursors ]
    [] tool = "get-page" -> [ pageId : ArgIds ]
    [] tool = "create-page" ->
         [ parentType : { "page_id", "database_id" }, parentId : ArgIds,
           title : Texts, properties : CallerProperties,
           content : OptionalTexts ]
    [] tool = "get-database" -> [ databaseId : ArgIds ]
    [] tool = "create-database" ->
         [ parentId : ArgIds, title : Texts,
           properties : { Undefined, Some([ Status |-> CallerValue ]) } ]
    [] tool = "query-database" ->
         [ databaseId : ArgIds,
           filter : { Undefined, Some([ property |-> "Status" ]) },
           sorts : { Undefined, Some(<< >>) },
           startCursor : Cursors, pageSize : PageSizes ]
    [] tool \in { "get-block-children", "get-comments" } ->
         [ blockId : ArgIds, startCursor : Cursors, pageSize : PageSizes ]
    [] tool = "append-block-children" -> [ blockId : ArgIds, content : Texts ]
    [] tool = "create-comment" -> [ pageId : ArgIds, text : Texts ]

\* What the remote service may answer.
Statuses == { 200, 404, 502 }

Body(id, message, request_id, results, has_more) ==
  [ kind |-> "object", id |-> id, message |-> message,
    request_id |-> request_id, results |-> results, has_more |-> has_more ]

NullBody ==
  [ kind |-> "null", id |-> "null", message |-> Undefined,
    request_id |-> Undefined, results |-> Undefined, has_more |-> Undefined ]

RemoteMessage == << "Could not find page." >>
RemoteRequestId == << "req-7f3a" >>

Bodies ==
  { Body("page", Undefined, Undefined, Undefined, Undefined),
    Body("empty list", Undefined, Undefined, Some(0), Some(FALSE)),
    Body("list", Undefined, Undefined, Some(2), Some(TRUE)),
    Body("error", Some(RemoteMessage), Some(RemoteRequestId), Undefined, Undefined),
    Body("error without id", Some(RemoteMessage), Undefined, Undefined, Undefined),
    Body("error without message", Undefined, Some(RemoteRequestId), Undefined,
         Undefined),
    Body("error with empty message", Some(<< >>), Undefined, Undefined, Undefined),
    NullBody }

Unparseable == [ kind |-> "unparseable" ]

\* What fetch may reject with: the TypeError of a failed connection, or (as
\* JavaScript lets any value be thrown) a value that is no Error.
TransportFailures ==
  { Err("TypeError", << "fetch failed" >>), NonError(<< "socket hang up" >>) }

\* fetch refuses a GET or HEAD request that carries a body: it rejects with
\* a TypeError before anything is sent.
FetchCanResolve(call) ==
  ~(call.method \in { "GET", "HEAD" } /\ call.body # NoBody)

RejectionsOf(call) ==
  IF FetchCanResolve(call) THEN TransportFailures ELSE { GetWithBodyError }

ApiKeys == { Undefined, Some(<< >>), Some(<< "secret_key" >>) }

----------------------------------------------------------------------------
(* State                                                                   *)

IdleCall ==
  [ state |-> "idle", tool |-> "none", args |-> [ none |-> TRUE ],
    fetch |-> NoFetch, fetchCalls |-> 0, status |-> 0, data |-> NoData,
    cause |-> NoError, outcome |-> NoOutcome, result |-> NoResult ]

NoClient == [ constructed |-> FALSE ]
NotCalled == [ threw |-> FALSE, value |-> << "not called" >>, message |-> << >> ]

\* The handler of tool called with args, up to its first suspension: the
\* Client has thrown and the handler has returned, or it awaits fetch.
Started(tool, args, start) ==
  [ IdleCall EXCEPT
      !.tool = tool, !.args = args,
      !.state = IF start.threw THEN "done" ELSE "fetching",
      !.fetch = start.fetch,
      !.fetchCalls = IF start.threw THEN 0 ELSE 1,
      !.outcome = IF start.threw THEN Threw(start.error) ELSE NoOutcome,
      !.result = IF start.threw THEN HandlerSettle(tool, Threw(start.error))
                 ELSE NoResult ]

\* Settled with one more attempt after a failure.
SettledRetry(call, outcome) ==
  IF outcome.threw /\ call.fetchCalls < 2
  THEN [ call EXCEPT !.state = "fetching", !.fetchCalls = @ + 1,
                     !.status = 0, !.data = NoData, !.cause = NoError ]
  ELSE [ call EXCEPT
           !.state = "done",
           !.outcome = outcome,
           !.result = HandlerSettle(call.tool, outcome) ]

\* Settled with the result kept in one place for all invocations: a call
\* that settles while another result waits for the host returns that one.
SettledShared(call, outcome) ==
  LET waiting == { d \in DOMAIN calls : calls[d].state = "done" }
  IN  [ call EXCEPT
          !.state = "done",
          !.outcome = outcome,
          !.result = IF waiting # {}
                     THEN calls[CHOOSE d \in waiting : TRUE].result
                     ELSE HandlerSettle(call.tool, outcome) ]

\* The awaited Client call settles: request returns or throws, and the
\* handler returns its result.
Settled(call, outcome) ==
  [ call EXCEPT
      !.state = "done",
      !.outcome = outcome,
      !.result = HandlerSettle(call.tool, outcome) ]

----------------------------------------------------------------------------
(* The entry point                                                         *)

startupVars == << apiKeyEnv, pc, exitCode, notionClient, toolConfig, tools,
                  connected >>

\* ApiKeyMissing as apiKey === undefined: an empty key passes.
ApiKeyMissingStrict(apiKey) == ~apiKey.defined

\* !apiKey
ApiKeyMissing(apiKey) == ~TruthyStr(apiKey)

\* if (!apiKey) throw ...: an uncaught exception ends the process with 1.
CheckApiKey ==
  /\ pc = "start"
  /\ IF ApiKeyMissing(apiKeyEnv)
     THEN pc' = "exited" /\ exitCode' = Some(1)
     ELSE pc' = "keyChecked" /\ exitCode' = exitCode
  /\ UNCHANGED << apiKeyEnv, notionClient, toolConfig, tools, connected,
                  calls, uuidIn, uuidOut >>

CreateClient ==
  /\ pc = "keyChecked"
  /\ notionClient' = NewNotionClient(apiKeyEnv.v)
  /\ pc' = "clientCreated"
  /\ UNCHANGED << apiKeyEnv, exitCode, toolConfig, tools, connected, calls,
                  uuidIn, uuidOut >>

RegisterTools ==
  /\ pc = "clientCreated"
  /\ tools' = registerNotionTools(toolConfig)
  /\ pc' = "registered"
  /\ UNCHANGED << apiKeyEnv, exitCode, notionClient, toolConfig, connected,
                  calls, uuidIn, uuidOut >>

\* main(): server.connect(transport) is called and awaited.
Main ==
  /\ pc = "registered"
  /\ pc' = "connecting"
  /\ UNCHANGED << apiKeyEnv, exitCode, notionClient, toolConfig, tools,
                  connected, calls, uuidIn, uuidOut >>

ConnectResolves ==
  /\ pc = "connecting"
  /\ connected' = TRUE
  /\ pc' = "serving"
  /\ UNCHANGED << apiKeyEnv, exitCode, notionClient, toolConfig, tools, calls,
                  uuidIn, uuidOut >>

\* main().catch(...): process.exit(1)
ConnectRejects ==
  /\ pc = "connecting"
  /\ pc' = "exited"
  /\ exitCode' = Some(1)
  /\ UNCHANGED << apiKeyEnv, notionClient, toolConfig, tools, connected, calls,
                  uuidIn, uuidOut >>

Startup ==
  \/ CheckApiKey
  \/ CreateClient
  \/ RegisterTools
  \/ Main
  \/ ConnectResolves
  \/ ConnectRejects

----------------------------------------------------------------------------
(* Tool invocations                                                        *)

IsRegistered(tool) == \E i \in 1..Len(tools) : tools[i] = tool

\* The host may call a tool's handler: the tool is registered and the
\* server is connected.
CanInvoke(c, tool) ==
  /\ pc = "serving"
  /\ IsRegistered(tool)
  /\ calls[c].state = "idle"

\* Invoked with a Client that a finished call has left changed.
InvokedAfterEffect(c, tool, args) ==
  LET used == IF \E d \in DOMAIN calls : calls[d].state = "done"
              THEN [ notionClient EXCEPT !.apiVersion = << "stale" >> ]
              ELSE notionClient
  IN  [ calls EXCEPT ![c] = Started(tool, args, HandlerStart(tool, used, args)) ]

\* The handler of tool runs with args up to its first suspension.
Invoked(c, tool, args) ==
  [ calls EXCEPT
      ![c] = Started(tool, args, HandlerStart(tool, notionClient, args)) ]

GetCurrentUserTool(c) ==
  /\ CanInvoke(c, "get-current-user")
  /\ \E args \in ArgsOf("get-current-user") : calls' = Invoked(c, "get-current-user", args)
  /\ UNCHANGED << startupVars, uuidIn, uuidOut >>

ListUsersTool(c) ==
  /\ CanInvoke(c, "list-users")
  /\ \E args \in ArgsOf("list-users") : calls' = Invoked(c, "list-users", args)
  /\ UNCHANGED << startupVars, uuidIn, uuidOut >>

SearchTool(c) ==
  /\ CanInvoke(c, "search")
  /\ \E args \in ArgsOf("search") : calls' = Invoked(c, "search", args)
  /\ UNCHANGED << startupVars, uuidIn, uuidOut >>

GetPageTool(c) ==
  /\ CanInvoke(c, "get-page")
  /\ \E args \in ArgsOf("get-page") : calls' = Invoked(c, "get-page", args)
  /\ UNCHANGED << startupVars, uuidIn, uuidOut >>

CreatePageTool(c) ==
  /\ CanInvoke(c, "create-page")
  /\ \E args \in ArgsOf("create-page") : calls' = Invoked(c, "create-page", args)
  /\ UNCHANGED << startupVars, uuidIn, uuidOut >>

GetDatabaseTool(c) ==
  /\ CanInvoke(c, "get-database")
  /\ \E args \in ArgsOf("get-database") : calls' = Invoked(c, "get-database", args)
  /\ UNCHANGED << startupVars, uuidIn, uuidOut >>

CreateDatabaseTool(c) ==
  /\ CanInvoke(c, "create-database")
  /\ \E args \in ArgsOf("create-database") : calls' = Invoked(c, "create-database", args)
  /\ UNCHANGED << startupVars, uuidIn, uuidOut >>

QueryDatabaseTool(c) ==
  /\ CanInvoke(c, "query-database")
  /\ \E args \in ArgsOf("query-database") : calls' = Invoked(c, "query-database", args)
  /\ UNCHANGED << startupVars, uuidIn, uuidOut >>

GetBlockChildrenTool(c) ==
  /\ CanInvoke(c, "get-block-children")
  /\ \E args \in ArgsOf("get-block-children") : calls' = Invoked(c, "get-block-children", args)
  /\ UNCHANGED << startupVars, uuidIn, uuidOut >>

AppendBlockChildrenTool(c) ==
  /\ CanInvoke(c, "append-block-children")
  /\ \E args \in ArgsOf("append-block-children") : calls' = Invoked(c, "append-block-children", args)
  /\ UNCHANGED << startupVars, uuidIn, uuidOut >>

GetCommentsTool(c) ==
  /\ CanInvoke(c, "get-comments")
  /\ \E args \in ArgsOf("get-comments") : calls' = Invoked(c, "get-comments", args)
  /\ UNCHANGED << startupVars, uuidIn, uuidOut >>

CreateCommentTool(c) ==
  /\ CanInvoke(c, "create-comment")
  /\ \E args \in ArgsOf("create-comment") : calls' = Invoked(c, "create-comment", args)
  /\ UNCHANGED << startupVars, uuidIn, uuidOut >>

GetAllPagesTool(c) ==
  /\ CanInvoke(c, "get-all-pages")
  /\ \E args \in ArgsOf("get-all-pages") : calls' = Invoked(c, "get-all-pages", args)
  /\ UNCHANGED << startupVars, uuidIn, uuidOut >>

\* await fetch(url, options) resolves with a response.
FetchResolves(c) ==
  /\ calls[c].state = "fetching"
  /\ FetchCanResolve(calls[c].fetch)
  /\ \E status \in Statuses :
       calls' = [ calls EXCEPT ![c].state = "parsing", ![c].status = status ]
  /\ UNCHANGED << startupVars, uuidIn, uuidOut >>

\* await fetch(url, options) rejects.
FetchRejects(c) ==
  /\ calls[c].state = "fetching"
  /\ \E cause \in RejectionsOf(calls[c].fetch) :
       calls' = [ calls EXCEPT
                    ![c] = Settled([ calls[c] EXCEPT !.cause = cause ],
                                   requestOnFetchRejected(cause)) ]
  /\ UNCHANGED << startupVars, uuidIn, uuidOut >>

\* await response.json() resolves with the parsed body.
JsonResolves(c) ==
  /\ calls[c].state = "parsing"
  /\ \E data \in Bodies :
       calls' = [ calls EXCEPT
                    ![c] = Settled([ calls[c] EXCEPT !.data = data ],
                                   requestOnJson(calls[c].fetch.endpoint,
                                                 calls[c].status, data)) ]
  /\ UNCHANGED << startupVars, uuidIn, uuidOut >>

\* await response.json() rejects: the body is not JSON.
JsonRejects(c) ==
  /\ calls[c].state = "parsing"
  /\ calls' = [ calls EXCEPT
                  ![c] = Settled([ calls[c] EXCEPT !.data = Unparseable ],
                                 requestOnJsonRejected) ]
  /\ UNCHANGED << startupVars, uuidIn, uuidOut >>

\* The host takes the result; the slot is free for the next invocation.
HostReceives(c) ==
  /\ calls[c].state = "done"
  /\ calls' = [ calls EXCEPT ![c] = IdleCall ]
  /\ UNCHANGED << startupVars, uuidIn, uuidOut >>

Resolution(c) ==
  \/ FetchResolves(c)
  \/ FetchRejects(c)
  \/ JsonResolves(c)
  \/ JsonRejects(c)
  \/ HostReceives(c)

----------------------------------------------------------------------------
(* Specification of the server: start-up, then tool invocations            *)

AllEnabledConfig == [ name \in {} |-> TRUE ]

\* The server handles one tool call at a time.
CallSlots == { 1 }

Init ==
  /\ apiKeyEnv \in ApiKeys
  /\ pc = "start"
  /\ exitCode = Undefined
  /\ notionClient = NoClient
  /\ toolConfig \in { IndexToolConfig, AllEnabledConfig }
  /\ tools = << >>
  /\ connected = FALSE
  /\ calls = [ c \in CallSlots |-> IdleCall ]
  /\ uuidIn = << >>
  /\ uuidOut = NotCalled

Next ==
  \/ Startup
  \/ \E c \in CallSlots :
       \/ GetCurrentUserTool(c)
       \/ ListUsersTool(c)
       \/ SearchTool(c)
       \/ GetPageTool(c)
       \/ CreatePageTool(c)
       \/ GetDatabaseTool(c)
       \/ CreateDatabaseTool(c)
       \/ QueryDatabaseTool(c)
       \/ GetBlockChildrenTool(c)
       \/ AppendBlockChildrenTool(c)
       \/ GetCommentsTool(c)
       \/ CreateCommentTool(c)
       \/ GetAllPagesTool(c)
       \/ Resolution(c)

Spec == Init /\ [][Next]_vars

----------------------------------------------------------------------------
(* Specification of start-up under any enablement map                      *)

\* The most entries in which an enablement map differs from the entry
\* point's literal.
MaxConfigEdits == 2

\* config with name set to enabled.
WithEntry(config, name, enabled) ==
  [ n \in DOMAIN config \cup { name } |->
      IF n = name THEN enabled ELSE config[n] ]

\* config with name left out.
WithoutEntry(config, name) == [ n \in DOMAIN config \ { name } |-> config[n] ]

RECURSIVE ConfigsWithin(_)
ConfigsWithin(k) ==
  IF k = 0 THEN { IndexToolConfig }
  ELSE LET fewer == ConfigsWithin(k - 1)
       IN  fewer
             \cup { WithEntry(config, name, enabled) :
                      config \in fewer, name \in ToolNames,
                      enabled \in BOOLEAN }
             \cup { WithoutEntry(config, name) :
                      config \in fewer, name \in ToolNames }

InitConfig ==
  /\ apiKeyEnv \in ApiKeys
  /\ pc = "start"
  /\ exitCode = Undefined
  /\ notionClient = NoClient
  /\ toolConfig \in ConfigsWithin(MaxConfigEdits)
  /\ tools = << >>
  /\ connected = FALSE
  /\ calls = [ c \in CallSlots |-> IdleCall ]
  /\ uuidIn = << >>
  /\ uuidOut = NotCalled

NextConfig == Startup

SpecConfig == InitConfig /\ [][NextConfig]_vars

----------------------------------------------------------------------------
(* Specification of validateUUID applied to one argument                   *)

InitUuid ==
  /\ uuidIn \in UuidInputs
  /\ uuidOut = NotCalled
  /\ apiKeyEnv = Undefined
  /\ pc = "library"
  /\ exitCode = Undefined
  /\ notionClient = NoClient
  /\ toolConfig = AllEnabledConfig
  /\ tools = << >>
  /\ connected = FALSE
  /\ calls = << >>

ValidateUuidCall ==
  /\ uuidOut = NotCalled
  /\ uuidOut' = validateUUID(uuidIn)
  /\ UNCHANGED << startupVars, calls, uuidIn >>

NextUuid == ValidateUuidCall

SpecUuid == InitUuid /\ [][NextUuid]_vars

----------------------------------------------------------------------------
(* Specification of get-page called twice in a row                         *)

PairSlots == { 1, 2 }

InitPair ==
  /\ apiKeyEnv \in ApiKeys
  /\ pc = "start"
  /\ exitCode = Undefined
  /\ notionClient = NoClient
  /\ toolConfig = IndexToolConfig
  /\ tools = << >>
  /\ connected = FALSE
  /\ calls = [ c \in PairSlots |-> IdleCall ]
  /\ uuidIn = << >>
  /\ uuidOut = NotCalled

\* The host calls get-page.
GetPageFirst ==
  /\ calls[2].state = "idle"
  /\ GetPageTool(1)

\* The first call has returned; the host calls get-page with the same
\* identifier.
GetPageAgain ==
  /\ calls[1].state = "done"
  /\ CanInvoke(2, "get-page")
  /\ calls' = Invoked(2, "get-page", calls[1].args)
  /\ UNCHANGED << startupVars, uuidIn, uuidOut >>

\* The host has both results.
HostReceivesPair ==
  /\ calls[1].state = "done" /\ calls[2].state = "done"
  /\ calls' = [ c \in PairSlots |-> IdleCall ]
  /\ UNCHANGED << startupVars, uuidIn, uuidOut >>

NextPair ==
  \/ Startup
  \/ GetPageFirst
  \/ GetPageAgain
  \/ HostReceivesPair
  \/ \E c \in PairSlots :
       \/ FetchResolves(c)
       \/ FetchRejects(c)
       \/ JsonResolves(c)
       \/ JsonRejects(c)

SpecPair == InitPair /\ [][NextPair]_vars

----------------------------------------------------------------------------
(* Specification of the Client called directly, operation by operation     *)

ClientKeys == { << "secret_key" >>, << "other_key" >> }

\* The parameter objects callers hand to the operations that take one.
SearchParamSets == { ObjectBody(SearchParams(a)) : a \in ArgsOf("search") }
CreatePageParamSets ==
  { [ parent |-> Some(Parent(a.parentType, a.parentId)),
      properties |-> Some(PageProperties(a.parentType, a.title, a.properties)),
      children |-> PageChildren(a.content) ] : a \in ArgsOf("create-page") }
UpdatePageParamSets ==
  { ObjectBody([ properties |-> p, archived |-> a ]) :
      p \in { Undefined, Some([ Status |-> CallerValue ]) },
      a \in { Undefined, Some(TRUE) } }
CreateDatabaseParamSets ==
  { ObjectBody([ parent |-> Some([ type |-> "page_id", page_id |-> id ]),
                 title |-> Some(RichText(t)),
                 properties |-> Some([ Name |-> [ title |-> << >> ] ]) ]) :
      id \in ArgIds, t \in Texts }
QueryParamSets ==
  { NoBody } \cup { ObjectBody(QueryParams(a)) : a \in ArgsOf("query-database") }
ChildrenParamSets ==
  { NoBody } \cup
  { ObjectBody([ start_cursor |-> sc, page_size |-> ps ]) :
      sc \in Cursors, ps \in PageSizes }
CreateCommentParamSets ==
  { ObjectBody([ parent |-> Some([ page_id |-> id ]),
                 rich_text |-> Some(RichText(t)) ]) :
      id \in ArgIds, t \in Texts }

InitClient ==
  /\ apiKeyEnv \in { Some(key) : key \in ClientKeys }
  /\ pc = "clientCreated"
  /\ exitCode = Undefined
  /\ notionClient = NewNotionClient(apiKeyEnv.v)
  /\ toolConfig = IndexToolConfig
  /\ tools = << >>
  /\ connected = FALSE
  /\ calls = [ c \in CallSlots |-> IdleCall ]
  /\ uuidIn = << >>
  /\ uuidOut = NotCalled

ClientIdle(c) == notionClient.constructed /\ calls[c].state = "idle"

\* Operation op has run up to its first await (start): it threw, or it has
\* called fetch and its promise is pending.
ClientCalled(c, op, start) ==
  [ calls EXCEPT
      ![c] = [ IdleCall EXCEPT
                 !.tool = op,
                 !.state = IF start.threw THEN "rejected" ELSE "pending",
                 !.fetch = start.fetch,
                 !.fetchCalls = IF start.threw THEN 0 ELSE 1,
                 !.outcome = IF start.threw THEN Threw(start.error)
                             ELSE NoOutcome ] ]

ClientGetMe(c) ==
  /\ ClientIdle(c)
  /\ calls' = ClientCalled(c, "getMe", getMe(notionClient))
  /\ UNCHANGED << startupVars, uuidIn, uuidOut >>

ClientListUsers(c) ==
  /\ ClientIdle(c)
  /\ \E startCursor \in Cursors, pageSize \in PageSizes :
       calls' = ClientCalled(c, "listUsers",
                             listUsers(notionClient, startCursor, pageSize))
  /\ UNCHANGED << startupVars, uuidIn, uuidOut >>

ClientGetUser(c) ==
  /\ ClientIdle(c)
  /\ \E userId \in ArgIds :
       calls' = ClientCalled(c, "getUser", getUser(notionClient, userId))
  /\ UNCHANGED << startupVars, uuidIn, uuidOut >>

ClientSearch(c) ==
  /\ ClientIdle(c)
  /\ \E params \in SearchParamSets :
       calls' = ClientCalled(c, "search", search(notionClient, params))
  /\ UNCHANGED << startupVars, uuidIn, uuidOut >>

ClientGetPage(c) ==
  /\ ClientIdle(c)
  /\ \E pageId \in ArgIds :
       calls' = ClientCalled(c, "getPage", getPage(notionClient, pageId))
  /\ UNCHANGED << startupVars, uuidIn, uuidOut >>

ClientCreatePage(c) ==
  /\ ClientIdle(c)
  /\ \E params \in CreatePageParamSets :
       calls' = ClientCalled(c, "createPage", createPage(notionClient, params))
  /\ UNCHANGED << startupVars, uuidIn, uuidOut >>

ClientUpdatePage(c) ==
  /\ ClientIdle(c)
  /\ \E pageId \in ArgIds, params \in UpdatePageParamSets :
       calls' = ClientCalled(c, "updatePage",
                             updatePage(notionClient, pageId, params))
  /\ UNCHANGED << startupVars, uuidIn, uuidOut >>

ClientGetDatabase(c) ==
  /\ ClientIdle(c)
  /\ \E databaseId \in ArgIds :
       calls' = ClientCalled(c, "getDatabase",
                             getDatabase(notionClient, databaseId))
  /\ UNCHANGED << startupVars, uuidIn, uuidOut >>

ClientCreateDatabase(c) ==
  /\ ClientIdle(c)
  /\ \E params \in CreateDatabaseParamSets :
       calls' = ClientCalled(c, "createDatabase",
                             createDatabase(notionClient, params))
  /\ UNCHANGED << startupVars, uuidIn, uuidOut >>

ClientQueryDatabase(c) ==
  /\ ClientIdle(c)
  /\ \E databaseId \in ArgIds, params \in QueryParamSets :
       calls' = ClientCalled(c, "queryDatabase",
                             queryDatabase(notionClient, databaseId, params))
  /\ UNCHANGED << startupVars, uuidIn, uuidOut >>

ClientGetBlock(c) ==
  /\ ClientIdle(c)
  /\ \E blockId \in ArgIds :
       calls' = ClientCalled(c, "getBlock", getBlock(notionClient, blockId))
  /\ UNCHANGED << startupVars, uuidIn, uuidOut >>

ClientGetBlockChildren(c) ==
  /\ ClientIdle(c)
  /\ \E blockId \in ArgIds, params \in ChildrenParamSets :
       calls' = ClientCalled(c, "getBlockChildren",
                             getBlockChildren(notionClient, blockId, params))
  /\ UNCHANGED << startupVars, uuidIn, uuidOut >>

ClientAppendBlockChildren(c) ==
  /\ ClientIdle(c)
  /\ \E blockId \in ArgIds, content \in Texts :
       calls' = ClientCalled(c, "appendBlockChildren",
                  appendBlockChildren(notionClient, blockId,
                                      << Paragraph(content) >>))
  /\ UNCHANGED << startupVars, uuidIn, uuidOut >>

ClientGetComments(c) ==
  /\ ClientIdle(c)
  /\ \E blockId \in ArgIds, startCursor \in Cursors, pageSize \in PageSizes :
       calls' = ClientCalled(c, "getComments",
                  getComments(notionClient, blockId, startCursor, pageSize))
  /\ UNCHANGED << startupVars, uuidIn, uuidOut >>

ClientCreateComment(c) ==
  /\ ClientIdle(c)
  /\ \E params \in CreateCommentParamSets :
       calls' = ClientCalled(c, "createComment",
                             createComment(notionClient, params))
  /\ UNCHANGED << startupVars, uuidIn, uuidOut >>

\* The promise of the operation settles and the caller has its outcome.
ClientSettles(c) ==
  /\ calls[c].state \in { "rejected", "pending" }
  /\ calls' = [ calls EXCEPT ![c] = IdleCall ]
  /\ UNCHANGED << startupVars, uuidIn, uuidOut >>

NextClient ==
  \E c \in CallSlots :
    \/ ClientGetMe(c)
    \/ ClientListUsers(c)
    \/ ClientGetUser(c)
    \/ ClientSearch(c)
    \/ ClientGetPage(c)
    \/ ClientCreatePage(c)
    \/ ClientUpdatePage(c)
    \/ ClientGetDatabase(c)
    \/ ClientCreateDatabase(c)
    \/ ClientQueryDatabase(c)
    \/ ClientGetBlock(c)
    \/ ClientGetBlockChildren(c)
    \/ ClientAppendBlockChildren(c)
    \/ ClientGetComments(c)
    \/ ClientCreateComment(c)
    \/ ClientSettles(c)

SpecClient == InitClient /\ [][NextClient]_vars

----------------------------------------------------------------------------
(* Specification of two invocations interleaving at their awaits           *)

\* The arguments the interleaved invocations are called with.
InterleavedIds == { CanonicalId, QuotedBadId }
InterleavedArgs(tool) ==
  IF tool = "get-page" THEN [ pageId : InterleavedIds ]
  ELSE [ parentType : { "page_id", "database_id" }, parentId : InterleavedIds,
         title : { << "F", "o", "o" >> }, properties : { Undefined },
         content : OptionalTexts ]

\* The host calls get-page while the other invocation is wherever it is.
GetPageInterleaved(c) ==
  /\ CanInvoke(c, "get-page")
  /\ \E args \in InterleavedArgs("get-page") :
       calls' = Invoked(c, "get-page", args)
  /\ UNCHANGED << startupVars, uuidIn, uuidOut >>

\* The host calls create-page while the other invocation is wherever it is.
CreatePageInterleaved(c) ==
  /\ CanInvoke(c, "create-page")
  /\ \E args \in InterleavedArgs("create-page") :
       calls' = Invoked(c, "create-page", args)
  /\ UNCHANGED << startupVars, uuidIn, uuidOut >>

NextInterleaved ==
  \/ Startup
  \/ \E c \in PairSlots :
       \/ GetPageInterleaved(c)
       \/ CreatePageInterleaved(c)
       \/ Resolution(c)

SpecInterleaved == InitPair /\ [][NextInterleaved]_vars

----------------------------------------------------------------------------
(* Properties                                                              *)

\* An identifier with its quotes, whitespace and dashes removed.
ReduceId(id) == RemoveAll(id, Quotes \cup Whitespace \cup Dashes)

\* Exactly 32 hexadecimal characters.
IsHex32(str) ==
  /\ Len(str) = 32
  /\ \A i \in 1..Len(str) : str[i] \in Digits \cup LowerHex \cup UpperHex

ToLowerChar(ch) ==
  CASE ch = "A" -> "a" [] ch = "B" -> "b" [] ch = "C" -> "c"
    [] ch = "D" -> "d" [] ch = "E" -> "e" [] ch = "F" -> "f"
    [] OTHER -> ch

ToLower(str) == [ i \in 1..Len(str) |-> ToLowerChar(str[i]) ]

\* 32 characters grouped 8-4-4-4-12: dashes at (0-based) 8, 13, 18 and 23.
DashPositions == { 9, 14, 19, 24 }
Grouped(hex) ==
  [ i \in 1..(Len(hex) + 4) |->
      IF i \in DashPositions THEN "-"
      ELSE hex[i - Cardinality({ d \in DashPositions : d < i })] ]

ToolCalls == { calls[c] : c \in DOMAIN calls }
Finished(call) == call.state = "done"
ErrorPrefix(tool) == << "Error ", ErrorAction(tool), ": " >>
ResultText(call) == call.result.content[1].text
NonSuccess(call) == call.status # 0 /\ call.status \notin 200..299

\* The identifier argument of the tools that take a page, block or database
\* identifier.
IdTools ==
  { "get-page", "create-page", "get-database", "create-database",
    "query-database", "get-block-children", "append-block-children",
    "get-comments", "create-comment" }
IdArg(call) ==
  CASE call.tool \in { "get-page", "create-comment" } -> call.args.pageId
    [] call.tool \in { "create-page", "create-database" } -> call.args.parentId
    [] call.tool \in { "get-database", "query-database" } -> call.args.databaseId
    [] OTHER -> call.args.blockId

\* C1: whenever an invocation of a tool fails (the Client throws on
\* validation, on a non-success status or on a transport failure, or building
\* the result throws), the handler returns exactly one text item whose text
\* is "Error <action>: <message>"; every finished invocation has returned a
\* result.
C1_FailureIsErrorText ==
  \A call \in ToolCalls :
    Finished(call) =>
      /\ Len(call.result.content) = 1
      /\ call.result.content[1].type = "text"
      /\ call.outcome.threw =>
           ResultText(call) = ErrorPrefix(call.tool) \o call.outcome.error.message
      /\ (/\ ~call.outcome.threw
          /\ call.tool = "get-all-pages"
          /\ (call.data.kind = "null" \/ ~call.data.results.defined)) =>
           /\ Len(ResultText(call)) > 3
           /\ SubSeq(ResultText(call), 1, 3) = ErrorPrefix(call.tool)

\* A get-all-pages invocation whose result could not be built from a
\* successful response.
C1_Witness ==
  \E call \in ToolCalls :
    /\ Finished(call) /\ call.tool = "get-all-pages"
    /\ ~call.outcome.threw /\ call.data.kind = "null"
    /\ SubSeq(ResultText(call), 1, 3) = ErrorPrefix(call.tool)

\* C2: an invocation calls fetch at most once: once when the call is
\* dispatched, never when validation throws first, and never again after the
\* request has failed.
C2_AtMostOneRequest ==
  \A call \in ToolCalls :
    /\ call.fetchCalls <= 1
    /\ call.state \in { "fetching", "parsing" } => call.fetchCalls = 1
    /\ Finished(call) =>
         call.fetchCalls =
           IF call.outcome.threw /\ call.status = 0 /\ call.cause = NoError
           THEN 0 ELSE 1

\* An invocation that ended on a non-success status after its one request.
C2_Witness ==
  \E call \in ToolCalls :
    /\ Finished(call) /\ call.outcome.threw /\ NonSuccess(call)
    /\ call.fetchCalls = 1

\* C3: an operation given a page, block or database identifier of invalid
\* format issues no request.
C3_InvalidIdNeverDispatched ==
  \A call \in ToolCalls :
    (call.tool \in IdTools /\ ~IsHex32(ReduceId(IdArg(call)))) =>
      call.fetchCalls = 0

\* C4 as stated: an identifier that reduces to 32 hexadecimal characters is
\* returned in lowercase, grouped 8-4-4-4-12.
C4_LowercaseGrouped ==
  (uuidOut # NotCalled /\ IsHex32(ReduceId(uuidIn))) =>
    /\ ~uuidOut.threw
    /\ uuidOut.value = Grouped(ToLower(ReduceId(uuidIn)))

\* C4 as amended: an identifier that reduces to 32 hexadecimal characters is
\* returned as those characters, in the case they were given, grouped
\* 8-4-4-4-12 with dashes at positions 8, 13, 18 and 23.
C4_CasePreservedGrouped ==
  (uuidOut # NotCalled /\ IsHex32(ReduceId(uuidIn))) =>
    /\ ~uuidOut.threw
    /\ uuidOut.value = Grouped(ReduceId(uuidIn))

\* An accepted identifier given in uppercase, inside quotes, with a dash
\* out of place.
C4_Witness ==
  /\ uuidOut # NotCalled /\ ~uuidOut.threw
  /\ IsHex32(ReduceId(uuidIn))
  /\ \E i \in 1..Len(uuidIn) : uuidIn[i] \in UpperHex
  /\ \E i \in 1..Len(uuidIn) : uuidIn[i] \in Quotes
  /\ \E i \in 1..Len(uuidIn) : uuidIn[i] = "-" /\ i \notin DashPositions
  /\ uuidOut.value = Grouped(ReduceId(uuidIn))

\* C5: an identifier that does not reduce to 32 hexadecimal characters makes
\* the operation fail with a message that contains the identifier as the
\* caller passed it, and no request is issued.
C5_ErrorNamesOriginalInput ==
  \A call \in ToolCalls :
    (/\ Finished(call)
     /\ call.tool \in { "get-page", "create-page", "get-block-children" }
     /\ ~IsHex32(ReduceId(IdArg(call)))) =>
      /\ call.outcome.threw
      /\ Includes(call.outcome.error.message, IdArg(call))
      /\ call.fetchCalls = 0

\* C6: a response with a non-success status, whatever its body, makes
\* request throw; no tool returns the payload of such a response.
C6_NonSuccessAlwaysFails ==
  \A call \in ToolCalls :
    (Finished(call) /\ NonSuccess(call)) =>
      /\ call.outcome.threw
      /\ call.outcome.data = NoData
      /\ ResultText(call)[1] = "Error "

\* A non-success response whose body is not JSON.
C6_Witness ==
  \E call \in ToolCalls :
    /\ Finished(call) /\ NonSuccess(call) /\ call.data = Unparseable
    /\ call.outcome.threw

\* C7: the error of a non-success response carries the status code, the
\* remote message (the whole body when it has none), the endpoint and the
\* remote request identifier when the body has one.
C7_ErrorCarriesDetails ==
  \A call \in ToolCalls :
    (Finished(call) /\ NonSuccess(call)) =>
      LET message == call.outcome.error.message
      IN  /\ call.outcome.threw
          /\ Includes(message, << ToString(call.status) >>)
          /\ Includes(message, call.fetch.endpoint)
          /\ call.data.kind = "object" =>
               /\ Includes(message,
                           IF call.data.message.defined
                           THEN call.data.message.v ELSE Compact(call.data))
               /\ call.data.request_id.defined =>
                    Includes(message, call.data.request_id.v)

Count(seq, x) == Cardinality({ i \in 1..Len(seq) : seq[i] = x })
SetToFalse(name) == name \in DOMAIN toolConfig /\ toolConfig[name] = FALSE
RegistrationDone == pc \in { "registered", "connecting", "serving" }

\* C9: a tool whose name the enablement map sets to false is never
\* registered; once registerNotionTools has run, a tool whose name is absent
\* from the map or set to true is registered exactly once.
C9_RegisteredIffNotFalse ==
  \A name \in ToolNames :
    /\ SetToFalse(name) => Count(tools, name) = 0
    /\ (RegistrationDone /\ ~SetToFalse(name)) => Count(tools, name) = 1

\* A running server whose map leaves one tool out, sets one to false and one
\* to true.
C9_Witness ==
  /\ pc = "serving"
  /\ \E absent, off, on \in ToolNames :
       /\ absent \notin DOMAIN toolConfig /\ Count(tools, absent) = 1
       /\ SetToFalse(off) /\ Count(tools, off) = 0
       /\ on \in DOMAIN toolConfig /\ toolConfig[on] /\ Count(tools, on) = 1

KeyIsMissing == ~apiKeyEnv.defined \/ apiKeyEnv.v = << >>

\* C10: with NOTION_API_KEY missing the process goes from its first
\* statement straight to a non-zero exit: no Client is constructed, no tool
\* is registered, the transport is never connected and no tool is invoked.
C10_NoKeyNoServer ==
  KeyIsMissing =>
    /\ pc \in { "start", "exited" }
    /\ pc = "exited" => (exitCode.defined /\ exitCode.v # 0)
    /\ notionClient = NoClient
    /\ tools = << >>
    /\ ~connected
    /\ \A call \in ToolCalls : call.state = "idle"

\* The process has exited with code 1 for want of the key.
C10_Witness ==
  /\ KeyIsMissing /\ pc = "exited" /\ exitCode = Some(1)
  /\ notionClient = NoClient /\ tools = << >>

\* The create-page invocations that reached fetch, and what they sent.
Dispatched(call) == call.state # "idle" /\ call.fetchCalls = 1
SentFields(call) == call.fetch.body.fields
CreatePageCalls(parentType) ==
  { call \in ToolCalls :
      /\ call.tool = "create-page" /\ Dispatched(call)
      /\ call.args.parentType = parentType }
GivenProperties(call) ==
  IF call.args.properties.defined THEN call.args.properties.v ELSE NoProperties
TitleProperty(title) ==
  [ title |-> << [ type |-> "text", text |-> [ content |-> title ] ] >> ]
WithName(given, title) ==
  [ key \in DOMAIN given \cup { "Name" } |->
      IF key = "Name" THEN TitleProperty(title) ELSE given[key] ]

\* C11 as stated: under a database parent the caller's properties are sent
\* as given; when they hold no Name property (or are omitted) a Name title
\* property with the title as text is added; a caller's Name property is
\* sent unchanged.
C11_NameAddedWhenAbsent ==
  \A call \in CreatePageCalls("database_id") :
    LET given == GivenProperties(call)
        sent == SentFields(call).properties
    IN  IF "Name" \in DOMAIN given THEN sent = given
        ELSE sent = WithName(given, call.args.title)

\* C11 as amended: under a database parent the caller's properties are sent
\* as given, except that a non-empty title sets the Name title property when
\* the caller's properties hold no Name or a falsy one; with an empty title
\* nothing is added, and a truthy Name of the caller is sent unchanged.
C11_NameAddedWhenTitleAndNoTruthyName ==
  \A call \in CreatePageCalls("database_id") :
    LET given == GivenProperties(call)
        sent == SentFields(call).properties
        nameFalsy == "Name" \notin DOMAIN given \/ ~given["Name"].truthy
    IN  IF call.args.title # << >> /\ nameFalsy
        THEN sent = WithName(given, call.args.title)
        ELSE sent = given

\* A page created in a database with properties omitted and title Foo: the
\* body's properties are the Name title property alone.
C11_Witness ==
  \E call \in CreatePageCalls("database_id") :
    /\ ~call.args.properties.defined
    /\ call.args.title = << "F", "o", "o" >>
    /\ SentFields(call).properties = [ Name |-> TitleProperty(<< "F", "o", "o" >>) ]

\* C12: under a page parent the properties sent are the title property
\* synthesized from the title argument and nothing else, whatever
\* properties the caller supplied.
C12_PageParentTitleOnly ==
  \A call \in CreatePageCalls("page_id") :
    SentFields(call).properties = TitleProperty(call.args.title)

\* A page created under a page with caller properties that were not sent.
C12_Witness ==
  \E call \in CreatePageCalls("page_id") :
    /\ call.args.properties.defined
    /\ DOMAIN call.args.properties.v # {}
    /\ DOMAIN SentFields(call).properties = { "title" }

OneParagraph(content) ==
  << [ object |-> "block", type |-> "paragraph",
       paragraph |->
         [ rich_text |->
             << [ type |-> "text", text |-> [ content |-> content ] ] >> ] ] >>

\* C13 as stated: with a content argument the children sent are exactly one
\* paragraph block whose rich text is one text item with that content; with
\* content omitted the body has no children.
C13_ContentGivenOneParagraph ==
  \A call \in CreatePageCalls("page_id") \cup CreatePageCalls("database_id") :
    IF call.args.content.defined
    THEN /\ "children" \in DOMAIN SentFields(call)
         /\ SentFields(call).children = OneParagraph(call.args.content.v)
    ELSE "children" \notin DOMAIN SentFields(call)

\* C13 as amended: with a non-empty content the children sent are exactly
\* one paragraph block whose rich text is one text item with that content;
\* with content omitted or empty the body has no children.
C13_NonEmptyContentOneParagraph ==
  \A call \in CreatePageCalls("page_id") \cup CreatePageCalls("database_id") :
    IF call.args.content.defined /\ call.args.content.v # << >>
    THEN /\ "children" \in DOMAIN SentFields(call)
         /\ SentFields(call).children = OneParagraph(call.args.content.v)
    ELSE "children" \notin DOMAIN SentFields(call)

\* A page created with content Foo, sent as one paragraph.
C13_Witness ==
  \E call \in CreatePageCalls("page_id") :
    /\ call.args.content = Some(<< "F", "o", "o" >>)
    /\ Len(SentFields(call).children) = 1
    /\ SentFields(call).children[1].type = "paragraph"

CallsOf(tool) == { call \in ToolCalls : call.tool = tool }

\* C14: append-block-children sends PATCH to the children endpoint of the
\* block with a body of exactly one child block, a paragraph whose rich text
\* is exactly one text item with the content, for every content string.
C14_AppendsOneParagraph ==
  \A call \in CallsOf("append-block-children") :
    /\ call.fetchCalls = 1
    /\ call.fetch.method = "PATCH"
    /\ call.fetch.endpoint =
         << "/v1/blocks/" >> \o call.args.blockId \o << "/children" >>
    /\ DOMAIN SentFields(call) = { "children" }
    /\ Len(SentFields(call).children) = 1
    /\ SentFields(call).children[1].type = "paragraph"
    /\ SentFields(call).children[1].paragraph.rich_text =
         << [ type |-> "text", text |-> [ content |-> call.args.content ] ] >>

\* Blocks appended with the empty string as content.
C14_Witness ==
  \E call \in CallsOf("append-block-children") :
    /\ call.args.content = << >>
    /\ call.fetch.method = "PATCH"
    /\ Len(SentFields(call).children) = 1

HasResults(data) == data.kind = "object" /\ data.results.defined

\* C15: get-all-pages issues one search request filtered to objects of
\* value page, without a query, with page size 100 when pageSize is omitted
\* and the given page size otherwise; on success its text is
\* "Found N pages. ", then "More pages available." when has_more is true and
\* "No more pages available." otherwise, then the serialized response.
C15_AllPagesSearchAndSummary ==
  \A call \in CallsOf("get-all-pages") :
    /\ call.fetchCalls = 1
    /\ call.fetch.endpoint = << "/v1/search" >>
    /\ call.fetch.method = "POST"
    /\ SentFields(call).filter = [ property |-> "object", value |-> "page" ]
    /\ "query" \notin DOMAIN SentFields(call)
    /\ "page_size" \in DOMAIN SentFields(call)
    /\ SentFields(call).page_size =
         IF call.args.pageSize.defined THEN call.args.pageSize.v ELSE 100
    /\ (Finished(call) /\ ~call.outcome.threw /\ HasResults(call.data)) =>
         /\ SubSeq(ResultText(call), 1, 3) =
              << "Found ", ToString(call.data.results.v), " pages. " >>
         /\ ResultText(call)[4] =
              IF call.data.has_more.v THEN "More pages available."
              ELSE "No more pages available."
         /\ SubSeq(ResultText(call), 6, Len(ResultText(call))) = Pretty(call.data)

\* get-all-pages called without pageSize found two pages with more to come.
C15_Witness ==
  \E call \in CallsOf("get-all-pages") :
    /\ Finished(call) /\ ~call.args.pageSize.defined
    /\ SentFields(call).page_size = 100
    /\ call.data.kind = "object" /\ call.data.results = Some(2)
    /\ SubSeq(ResultText(call), 1, 4) =
         << "Found ", "2", " pages. ", "More pages available." >>

\* C16: search sends a sort with the requested timestamp and the given
\* direction, descending when sortDirection is omitted; without a sort field
\* the body has no sort, whatever sortDirection is.
C16_SortDefaultsDescending ==
  \A call \in CallsOf("search") :
    IF call.args.sort.defined
    THEN /\ "sort" \in DOMAIN SentFields(call)
         /\ SentFields(call).sort.timestamp = call.args.sort.v
         /\ SentFields(call).sort.direction =
              IF call.args.sortDirection.defined
              THEN call.args.sortDirection.v ELSE "descending"
    ELSE "sort" \notin DOMAIN SentFields(call)

\* A search sorted by last_edited_time with no direction given.
C16_Witness ==
  \E call \in CallsOf("search") :
    /\ call.args.sort.defined /\ ~call.args.sortDirection.defined
    /\ SentFields(call).sort.direction = "descending"

OneTextItem(call) ==
  Len(call.result.content) = 1 /\ call.result.content[1].type = "text"
IsErrorText(call) ==
  /\ Len(ResultText(call)) > 3
  /\ SubSeq(ResultText(call), 1, 3) = ErrorPrefix(call.tool)

\* C17 as stated: when the Client call succeeds the result of the tool is one
\* text item containing the whole serialized response body; a result is that
\* or an error string.
C17_SuccessIsFullBody ==
  \A call \in ToolCalls :
    Finished(call) =>
      /\ OneTextItem(call)
      /\ IF call.outcome.threw THEN IsErrorText(call)
         ELSE Includes(ResultText(call), Pretty(call.data))

\* C17 as amended: when the Client call succeeds the result of the tool is
\* one text item containing the whole serialized response body, except that
\* get-all-pages returns its error string when the body is null or has no
\* results; a result is the whole body or an error string.
C17_SuccessIsFullBodyUnlessSummaryFails ==
  \A call \in ToolCalls :
    Finished(call) =>
      /\ OneTextItem(call)
      /\ IF call.outcome.threw THEN IsErrorText(call)
         ELSE IF call.tool = "get-all-pages"
              THEN IF HasResults(call.data)
                   THEN Includes(ResultText(call), Pretty(call.data))
                   ELSE IsErrorText(call)
              ELSE ResultText(call) = Pretty(call.data)

\* A page retrieved with status 200 and returned whole.
C17_Witness ==
  \E call \in CallsOf("get-page") :
    /\ Finished(call) /\ ~call.outcome.threw /\ call.status = 200
    /\ call.data.kind = "object"
    /\ ResultText(call) = << "JSON.stringify(", call.data.id, ", null, 2)" >>

SameAnswer(first, second) ==
  /\ first.status = second.status
  /\ first.data = second.data
  /\ first.cause = second.cause

C19_EveryOperationAndReadmeToolExposed ==
  pc = "serving" =>
    /\ \A op \in ClientOperations :
         \E i \in 1..Len(tools) : ToolOperation(tools[i]) = op
    /\ \A tool \in ReadmeTools : IsRegistered(tool)

\* The Client as its constructor left it, and the headers built from it.
ConstructedClient ==
  [ constructed |-> TRUE, apiKey |-> apiKeyEnv.v,
    baseUrl |-> << "https://api.notion.com" >>,
    apiVersion |-> << "2022-06-28" >> ]
ExpectedHeaders ==
  [ Authorization |-> << "Bearer " >> \o apiKeyEnv.v,
    ContentType |-> << "application/json" >>,
    NotionVersion |-> << "2022-06-28" >> ]

\* C20: no step of any Client operation changes the credential, base URL or
\* version the Client was constructed with, and every call made to fetch
\* goes to the base URL with the bearer Authorization, the JSON Content-Type
\* and the fixed Notion-Version, whatever the arguments of the operation.
C20_ClientTripleAndHeadersFixed ==
  /\ [](/\ notionClient = ConstructedClient
        /\ \A call \in ToolCalls :
             call.fetchCalls > 0 =>
               /\ call.fetch.headers = ExpectedHeaders
               /\ call.fetch.url = << "https://api.notion.com" >> \o call.fetch.endpoint)
  /\ [][notionClient' = notionClient]_vars

\* updatePage has called fetch with a body and the three headers.
C20_Witness ==
  \E call \in CallsOf("updatePage") :
    /\ call.state = "pending"
    /\ call.fetch.method = "PATCH"
    /\ "archived" \in DOMAIN SentFields(call)
    /\ call.fetch.headers = ExpectedHeaders

\* C21: get-block-children with a valid blockId sends GET without a body
\* to the children endpoint of the block, with the caller's startCursor as
\* start_cursor and pageSize as page_size in its query, and a startCursor
\* does not make the call fail.
C21_CursorAndPageSizeForwarded ==
  \A call \in CallsOf("get-block-children") :
    IsHex32(ReduceId(call.args.blockId)) =>
      /\ call.fetchCalls = 1
      /\ call.fetch.method = "GET"
      /\ call.fetch.body = NoBody
      /\ TruthyStr(call.args.startCursor) =>
           Includes(call.fetch.endpoint,
                    << "start_cursor", "=" >> \o UrlEncode(call.args.startCursor.v))
      /\ call.args.pageSize.defined =>
           Includes(call.fetch.endpoint,
                    << "page_size", "=", ToString(call.args.pageSize.v) >>)
      /\ Finished(call) => call.cause # GetWithBodyError

\* What an invocation with the arguments and the remote answer of call
\* comes to when it is the only one: its call to fetch, and its result.
AloneStart(call) ==
  Started(call.tool, call.args,
          HandlerStart(call.tool, ConstructedClient, call.args))
AloneOutcome(call) ==
  IF call.cause # NoError THEN requestOnFetchRejected(call.cause)
  ELSE IF call.data.kind = "unparseable" THEN requestOnJsonRejected
  ELSE requestOnJson(call.fetch.endpoint, call.status, call.data)
AloneResult(call, alone) ==
  IF alone.state = "done" THEN alone.result
  ELSE HandlerSettle(call.tool, AloneOutcome(call))

\* C22: with two invocations interleaving at their awaits, each one's call
\* to fetch and each one's result are those of the same invocation running
\* alone against the same answer; a step of one invocation leaves the other
\* invocation's data as it was; the enablement map is never written, and the
\* Client is not written once constructed.
C22_InterleavingChangesNothing ==
  /\ [](\A c \in DOMAIN calls :
          calls[c].state # "idle" =>
            LET alone == AloneStart(calls[c])
            IN  /\ calls[c].fetch = alone.fetch
                /\ calls[c].fetchCalls = alone.fetchCalls
                /\ Finished(calls[c]) =>
                     calls[c].result = AloneResult(calls[c], alone))
  /\ [][\A c, d \in DOMAIN calls :
          (c # d /\ calls'[c] # calls[c]) => calls'[d] = calls[d]]_vars
  /\ [][/\ toolConfig' = toolConfig
        /\ notionClient.constructed => notionClient' = notionClient]_vars

\* create-page has finished while get-page, called meanwhile, still awaits
\* its response: the parent sent by create-page is its own validated one.
C22_Witness ==
  /\ DOMAIN calls = PairSlots
  /\ calls[1].tool = "create-page" /\ Finished(calls[1])
  /\ calls[1].status = 200 /\ ~calls[1].outcome.threw
  /\ calls[2].tool = "get-page" /\ calls[2].state = "parsing"
  /\ calls[2].status = 404
  /\ calls[1].result # NoResult

\* 36 characters: hexadecimal digits grouped 8-4-4-4-12 by dashes.
HasGrouping(id) ==
  /\ Len(id) = 36
  /\ \A i \in 1..Len(id) :
       IF i \in DashPositions THEN id[i] = "-"
       ELSE id[i] \in Digits \cup LowerHex \cup UpperHex

AnyClient == NewNotionClient(<< "secret_key" >>)
PageWithParent(parentType, id) ==
  [ parent |-> Some(Parent(parentType, id)), properties |-> Some(NoProperties),
    children |-> Undefined ]

\* C23: what validateUUID returns for a string it accepts is accepted in
\* turn and returned as it is; it has the 8-4-4-4-12 grouping, and it is the
\* identifier getPage, updatePage and getBlockChildren put in the request
\* path and createPage puts in the parent of the body.
C23_ValidateUuidIdempotent ==
  (uuidOut # NotCalled /\ ~uuidOut.threw) =>
    /\ validateUUID(uuidOut.value) = uuidOut
    /\ HasGrouping(uuidOut.value)
    /\ getPage(AnyClient, uuidIn).fetch.endpoint =
         << "/v1/pages/" >> \o uuidOut.value
    /\ updatePage(AnyClient, uuidIn, NoBody).fetch.endpoint =
         << "/v1/pages/" >> \o uuidOut.value
    /\ getBlockChildren(AnyClient, uuidIn, NoBody).fetch.endpoint =
         << "/v1/blocks/" >> \o uuidOut.value \o << "/children" >>
    /\ createPage(AnyClient, PageWithParent("page_id", uuidIn))
         .fetch.body.fields.parent.page_id = uuidOut.value
    /\ createPage(AnyClient, PageWithParent("database_id", uuidIn))
         .fetch.body.fields.parent.database_id = uuidOut.value

\* An identifier accepted from an input with quotes and a dash out of place
\* is returned unchanged by a second validation.
C23_Witness ==
  /\ uuidOut # NotCalled /\ ~uuidOut.threw
  /\ \E i \in 1..Len(uuidIn) : uuidIn[i] \in Quotes
  /\ \E i \in 1..Len(uuidIn) : uuidIn[i] = "-" /\ i \notin DashPositions
  /\ uuidIn # uuidOut.value
  /\ validateUUID(uuidOut.value).value = uuidOut.value

============================================================================
